---------------------------- MODULE Spec2Model ----------------------------
(***************************************************************************)
(* Model of the todo list of src/main.py: one SQLite table `tasks`,        *)
(* reached through a FastAPI front-end (get_tasks, create_task,            *)
(* update_task, delete_task) and a Typer CLI (showList, addItem,           *)
(* updateItem, removeItem).                                                *)
(*                                                                         *)
(* Spec     : every handler runs to completion before the next starts.     *)
(* SpecConc : two HTTP workers run update_task with its SELECT and its     *)
(*            UPDATE as separate steps, so that updates overlap.           *)
(***************************************************************************)
EXTENDS Integers, Sequences, FiniteSets, TLC

VARIABLES
    tasks,        \* the table: id -> [task_name, description, status, date_added]
    now,          \* wall clock, in seconds
    conns,        \* connections opened by connectDB() and not closed
    resp,         \* what the last finished operation answered
    usedIds,      \* history: every id storage has assigned to an insert
    onlyCreates,  \* history: no UPDATE or DELETE statement has changed a row yet
    req           \* per HTTP worker: the update_task call it is running

vars == <<tasks, now, conns, resp, usedIds, onlyCreates, req>>

-----------------------------------------------------------------------------
(* Bounds of the model *)

\* largest id an insert may assign
MaxRowId == 2
\* how many times the clock advances
MaxTicks == 2
\* seconds the clock advances at a time
TickSeconds == 30
\* connections that may be left open by failed CLI commands
MaxLeaked == 1

(* Program constants *)

MinNameLen == 1
MaxNameLen == 100
MaxDescLen == 255

-----------------------------------------------------------------------------
(* Values *)

\* Python's None / SQL NULL
None == "<None>"
\* a key that a JSON request body does not carry
Absent == "<absent>"

RECURSIVE Pad(_)
Pad(n) == IF n = 0 THEN "" ELSE "x" \o Pad(n - 1)

LongName == Pad(MaxNameLen + 1)
LongDesc == Pad(MaxDescLen + 1)

\* Literal["pending", "done", "in-progress", "testing"]
Statuses == {"pending", "done", "in-progress", "testing"}

Ids == 1..MaxRowId

\* the two HTTP workers of the concurrent specification
Workers == {1, 2}

(* Inputs *)

DescInputs == {"2%", LongDesc}
StatusInputs == {"done", "bogus"}

\* JSON bodies of POST /tasks
CreateBodies ==
    [task_name : {"", "Buy milk", LongName, Absent},
     description : DescInputs \cup {Absent},
     status : StatusInputs \cup {Absent, None}]

\* JSON bodies of PUT /tasks/{task_id}
UpdateBodies ==
    [task_name : {"", "Call mom", Absent},
     description : DescInputs \cup {Absent},
     status : StatusInputs \cup {Absent, None}]

\* the bodies the overlapping requests of SpecConc send
ConcCreateBodies ==
    {[task_name |-> "Buy milk", description |-> Absent, status |-> Absent]}

ConcUpdateBodies ==
    {[task_name |-> "Call mom", description |-> Absent, status |-> None],
     [task_name |-> Absent, description |-> Absent, status |-> "done"],
     [task_name |-> "Call mom", description |-> Absent, status |-> "done"],
     [task_name |-> "Call mom", description |-> Absent, status |-> Absent]}

\* arguments of the CLI commands
CliNames == {"", "Buy milk", LongName}
CliDescs == {"2%"}
CliStatuses == StatusInputs \cup {"pending"}

-----------------------------------------------------------------------------
(* Pydantic models *)

ValidName(v) == v \notin {None, Absent} /\ Len(v) >= MinNameLen /\ Len(v) <= MaxNameLen

ValidDesc(v) == v = None \/ (v # Absent /\ Len(v) <= MaxDescLen)

\* TaskCreate(TaskBase): task_name required, description and status defaulted
TaskCreateValid(b) ==
    /\ ValidName(b.task_name)
    /\ (b.description = Absent \/ ValidDesc(b.description))
    /\ (b.status = Absent \/ b.status \in Statuses)

TaskCreateModel(b) ==
    [task_name |-> b.task_name,
     description |-> IF b.description = Absent THEN None ELSE b.description,
     status |-> IF b.status = Absent THEN "pending" ELSE b.status]

\* TaskUpdate: task_name and description default to None; status has no default,
\* so the key is required (its value may be null)
TaskUpdateValid(b) ==
    /\ (b.task_name \in {Absent, None} \/ ValidName(b.task_name))
    /\ (b.description = Absent \/ ValidDesc(b.description))
    /\ b.status # Absent
    /\ (b.status = None \/ b.status \in Statuses)

TaskUpdateModel(b) ==
    [task_name |-> IF b.task_name = Absent THEN None ELSE b.task_name,
     description |-> IF b.description = Absent THEN None ELSE b.description,
     status |-> b.status]

\* Task(TaskBase): the response model, validated when it is constructed
TaskValid(t) ==
    /\ ValidName(t.task_name)
    /\ ValidDesc(t.description)
    /\ t.status \in Statuses

Task(id, row) ==
    [id |-> id, task_name |-> row.task_name, description |-> row.description,
     status |-> row.status, date_added |-> row.date_added]

-----------------------------------------------------------------------------
(* Storage *)

\* datetime.now().strftime('%Y-%m-%d %H:%M'): the clock cut to the minute
strftime(t) == t \div 60

EmptyTable == [i \in {} |-> None]

MaxOf(S) == CHOOSE m \in S : \A x \in S : x <= m

\* id INTEGER PRIMARY KEY (no AUTOINCREMENT): an insert without an id gets
\* one more than the largest id in the table, 1 in an empty table
NextRowId(t) == IF DOMAIN t = {} THEN 1 ELSE MaxOf(DOMAIN t) + 1

InsertRow(t, row) ==
    [i \in DOMAIN t \cup {NextRowId(t)} |-> IF i \in DOMAIN t THEN t[i] ELSE row]

\* UPDATE tasks SET task_name = ?, description = ?, status = ? WHERE id = ?
UpdateRow(t, id, m) ==
    [i \in DOMAIN t |->
        IF i = id
        THEN [t[i] EXCEPT !.task_name = m.task_name,
                          !.description = m.description,
                          !.status = m.status]
        ELSE t[i]]

\* UPDATE tasks SET status = ? WHERE id = ?
UpdateStatus(t, id, s) ==
    [i \in DOMAIN t |-> IF i = id THEN [t[i] EXCEPT !.status = s] ELSE t[i]]

\* DELETE FROM tasks WHERE id = ?
DeleteRow(t, id) == [i \in DOMAIN t \ {id} |-> t[i]]

RECURSIVE SelectFrom(_, _)
SelectFrom(t, i) ==
    IF i > MaxRowId THEN <<>>
    ELSE (IF i \in DOMAIN t THEN <<Task(i, t[i])>> ELSE <<>>) \o SelectFrom(t, i + 1)

\* SELECT id, task_name, description, status, date_added FROM tasks
SelectAll(t) == SelectFrom(t, 1)

-----------------------------------------------------------------------------
(* Responses *)

Response(op, code, out, sent, body) ==
    [op |-> op, code |-> code, out |-> out, sent |-> sent, body |-> body]

\* the keys of a request body that carry a value
Sent(b) == {f \in {"task_name", "description", "status"} : b[f] \notin {Absent, None}}

Idle == [pc |-> "idle"]

Init ==
    /\ tasks = EmptyTable
    /\ now = 0
    /\ conns = 0
    /\ resp = Response("create_DB_Table", 0, "", {}, <<>>)
    /\ usedIds = {}
    /\ onlyCreates = TRUE
    /\ req = [w \in Workers |-> Idle]


-----------------------------------------------------------------------------
(* The clock *)

Tick ==
    /\ now < MaxTicks * TickSeconds
    /\ now' = now + TickSeconds
    /\ UNCHANGED <<tasks, conns, resp, usedIds, onlyCreates, req>>

-----------------------------------------------------------------------------
(* Start-up.  ok = FALSE: the storage statement raises sqlite3.Error. *)

\* create_DB_Table(), run when the module is loaded: connectDB, CREATE TABLE IF
\* NOT EXISTS, commit, close.  The close is skipped when the statement raises.
create_DB_Table(ok) ==
    /\ ~ok => conns < MaxLeaked
    /\ conns' = IF ok THEN (conns + 1) - 1 ELSE conns + 1
    /\ resp' = Response("create_DB_Table", IF ok THEN 0 ELSE 1,
                        IF ok THEN "" ELSE "sqlite3.Error", {}, <<>>)
    /\ UNCHANGED <<tasks, now, usedIds, onlyCreates, req>>

-----------------------------------------------------------------------------
(* HTTP front-end.  Each handler gets its connection from get_db, which     *)
(* closes it in a finally clause on every exit path.                        *)

\* GET /tasks
get_tasks(ok) ==
    LET rows == SelectAll(tasks)
        valid == \A k \in 1..Len(rows) : TaskValid(rows[k])
    IN  /\ conns' = (conns + 1) - 1
        /\ resp' = IF ~ok THEN Response("get_tasks", 500, "sqlite3.Error", {}, <<>>)
                   ELSE IF ~valid THEN Response("get_tasks", 500, "ValidationError", {}, <<>>)
                   ELSE Response("get_tasks", 200, "", {}, rows)
        /\ UNCHANGED <<tasks, now, usedIds, onlyCreates, req>>

\* POST /tasks
create_task(body, ok) ==
    IF ~TaskCreateValid(body)
    THEN /\ resp' = Response("create_task", 422, "ValidationError", {}, <<>>)
         /\ conns' = (conns + 1) - 1
         /\ UNCHANGED <<tasks, now, usedIds, onlyCreates, req>>
    ELSE IF ~ok
    THEN /\ resp' = Response("create_task", 500, "Database error", {}, <<>>)
         /\ conns' = (conns + 1) - 1
         /\ UNCHANGED <<tasks, now, usedIds, onlyCreates, req>>
    ELSE LET task == TaskCreateModel(body)
             date_added == strftime(now)
             task_id == NextRowId(tasks)
             row == [task_name |-> task.task_name, description |-> task.description,
                     status |-> task.status, date_added |-> date_added]
         IN  /\ task_id <= MaxRowId
             /\ tasks' = InsertRow(tasks, row)
             /\ usedIds' = usedIds \cup {task_id}
             /\ resp' = Response("create_task", 201, "", {}, <<Task(task_id, row)>>)
             /\ conns' = (conns + 1) - 1
             /\ UNCHANGED <<now, onlyCreates, req>>

\* (a variant that writes the request's field even when it is None)
CoalesceNoDefault(new, old) == new

\* new = task.x if task.x is not None else row[x]
Coalesce(new, old) == IF new # None THEN new ELSE old

\* the row update_task writes: the request's fields over the row it read
Merged(row, m) ==
    [task_name |-> Coalesce(m.task_name, row.task_name),
     description |-> Coalesce(m.description, row.description),
     status |-> Coalesce(m.status, row.status),
     date_added |-> row.date_added]

\* PUT /tasks/{task_id}, run to completion
update_task(task_id, body, ok) ==
    IF ~TaskUpdateValid(body)
    THEN /\ resp' = Response("update_task", 422, "ValidationError", {}, <<>>)
         /\ conns' = (conns + 1) - 1
         /\ UNCHANGED <<tasks, now, usedIds, onlyCreates, req>>
    ELSE IF ~ok
    THEN /\ resp' = Response("update_task", 500, "sqlite3.Error", {}, <<>>)
         /\ conns' = (conns + 1) - 1
         /\ UNCHANGED <<tasks, now, usedIds, onlyCreates, req>>
    ELSE IF task_id \notin DOMAIN tasks
    THEN /\ resp' = Response("update_task", 404, "Task not found", {}, <<>>)
         /\ conns' = (conns + 1) - 1
         /\ UNCHANGED <<tasks, now, usedIds, onlyCreates, req>>
    ELSE LET new == Merged(tasks[task_id], TaskUpdateModel(body))
         IN  /\ tasks' = UpdateRow(tasks, task_id, new)
             /\ onlyCreates' = FALSE
             /\ resp' = IF TaskValid(new)
                        THEN Response("update_task", 200, "", Sent(body), <<Task(task_id, new)>>)
                        ELSE Response("update_task", 500, "ValidationError", {}, <<>>)
             /\ conns' = (conns + 1) - 1
             /\ UNCHANGED <<now, usedIds, req>>

\* DELETE /tasks/{task_id}
delete_task(task_id, ok) ==
    IF ~ok
    THEN /\ resp' = Response("delete_task", 500, "sqlite3.Error", {}, <<>>)
         /\ conns' = (conns + 1) - 1
         /\ UNCHANGED <<tasks, now, usedIds, onlyCreates, req>>
    ELSE IF task_id \notin DOMAIN tasks
    THEN /\ resp' = Response("delete_task", 404, "Task not found", {}, <<>>)
         /\ conns' = (conns + 1) - 1
         /\ UNCHANGED <<tasks, now, usedIds, onlyCreates, req>>
    ELSE /\ tasks' = DeleteRow(tasks, task_id)
         /\ onlyCreates' = FALSE
         /\ resp' = Response("delete_task", 204, "", {}, <<>>)
         /\ conns' = (conns + 1) - 1
         /\ UNCHANGED <<now, usedIds, req>>

-----------------------------------------------------------------------------
(* CLI front-end.  Each command calls connectDB() and closes the connection *)
(* in its last statement; an exception leaves the command before the close. *)
(* code is the exit status of the command, out what it printed.             *)

showList(ok) ==
    IF ok
    THEN /\ resp' = Response("showList", 0, "table", {}, SelectAll(tasks))
         /\ conns' = (conns + 1) - 1
         /\ UNCHANGED <<tasks, now, usedIds, onlyCreates, req>>
    ELSE /\ conns < MaxLeaked
         /\ resp' = Response("showList", 1, "sqlite3.Error", {}, <<>>)
         /\ conns' = conns + 1
         /\ UNCHANGED <<tasks, now, usedIds, onlyCreates, req>>

addItem(task_name, description, ok) ==
    IF ok
    THEN LET task_id == NextRowId(tasks)
             row == [task_name |-> task_name, description |-> description,
                     status |-> "pending", date_added |-> strftime(now)]
         IN  /\ task_id <= MaxRowId
             /\ tasks' = InsertRow(tasks, row)
             /\ usedIds' = usedIds \cup {task_id}
             /\ resp' = Response("addItem", 0, "Task added successfully", {}, <<>>)
             /\ conns' = (conns + 1) - 1
             /\ UNCHANGED <<now, onlyCreates, req>>
    ELSE /\ conns < MaxLeaked
         /\ resp' = Response("addItem", 1, "sqlite3.Error", {}, <<>>)
         /\ conns' = conns + 1
         /\ UNCHANGED <<tasks, now, usedIds, onlyCreates, req>>

updateItem(task_id, new_status, ok) ==
    IF ok
    THEN /\ tasks' = UpdateStatus(tasks, task_id, new_status)
         /\ onlyCreates' = (onlyCreates /\ task_id \notin DOMAIN tasks)
         /\ resp' = Response("updateItem", 0, "Task updated successfully", {}, <<>>)
         /\ conns' = (conns + 1) - 1
         /\ UNCHANGED <<now, usedIds, req>>
    ELSE /\ conns < MaxLeaked
         /\ resp' = Response("updateItem", 1, "sqlite3.Error", {}, <<>>)
         /\ conns' = conns + 1
         /\ UNCHANGED <<tasks, now, usedIds, onlyCreates, req>>

removeItem(task_id, ok) ==
    IF ok
    THEN /\ tasks' = DeleteRow(tasks, task_id)
         /\ onlyCreates' = (onlyCreates /\ task_id \notin DOMAIN tasks)
         /\ resp' = Response("removeItem", 0, "Task removed successfully", {}, <<>>)
         /\ conns' = (conns + 1) - 1
         /\ UNCHANGED <<now, usedIds, req>>
    ELSE /\ conns < MaxLeaked
         /\ resp' = Response("removeItem", 1, "sqlite3.Error", {}, <<>>)
         /\ conns' = conns + 1
         /\ UNCHANGED <<tasks, now, usedIds, onlyCreates, req>>

-----------------------------------------------------------------------------

Next ==
    \/ Tick
    \/ \E ok \in BOOLEAN : create_DB_Table(ok)
    \/ \E ok \in BOOLEAN : get_tasks(ok)
    \/ \E body \in CreateBodies, ok \in BOOLEAN : create_task(body, ok)
    \/ \E task_id \in Ids, body \in UpdateBodies, ok \in BOOLEAN :
          update_task(task_id, body, ok)
    \/ \E task_id \in Ids, ok \in BOOLEAN : delete_task(task_id, ok)
    \/ \E ok \in BOOLEAN : showList(ok)
    \/ \E task_name \in CliNames, description \in CliDescs, ok \in BOOLEAN :
          addItem(task_name, description, ok)
    \/ \E task_id \in Ids, new_status \in CliStatuses, ok \in BOOLEAN :
          updateItem(task_id, new_status, ok)
    \/ \E task_id \in Ids, ok \in BOOLEAN : removeItem(task_id, ok)

Spec == Init /\ [][Next]_vars

-----------------------------------------------------------------------------
(* Overlapping HTTP updates.  FastAPI runs a `def` endpoint in a worker      *)
(* thread, each with its own connection from get_db; update_task reads the   *)
(* row with one statement and writes it with another, and other requests     *)
(* run between the two.                                                      *)

\* (a variant that reads the row again when it writes)
RowReread(w) == tasks[req[w].id]

\* the row the UPDATE of worker w is computed from: the one its SELECT fetched
RowSeenByWriter(w) == req[w].row

\* update_task up to row = cursor.fetchone(), with its two early exits
update_task_read(w, task_id, body) ==
    /\ req[w].pc = "idle"
    /\ IF ~TaskUpdateValid(body)
       THEN /\ resp' = Response("update_task", 422, "ValidationError", {}, <<>>)
            /\ conns' = (conns + 1) - 1
            /\ UNCHANGED <<tasks, now, usedIds, onlyCreates, req>>
       ELSE IF task_id \notin DOMAIN tasks
       THEN /\ resp' = Response("update_task", 404, "Task not found", {}, <<>>)
            /\ conns' = (conns + 1) - 1
            /\ UNCHANGED <<tasks, now, usedIds, onlyCreates, req>>
       ELSE /\ req' = [req EXCEPT ![w] =
                          [pc |-> "read", id |-> task_id, body |-> body,
                           row |-> tasks[task_id], new |-> tasks[task_id],
                           stale |-> FALSE, first |-> FALSE]]
            /\ conns' = conns + 1
            /\ UNCHANGED <<tasks, now, resp, usedIds, onlyCreates>>

\* the merge, the UPDATE statement and db.commit().
\* History kept in req: `first` of the writer is set when another worker holds a
\* row of the same task that it read and has not written yet; `stale` of that
\* other worker is set, for the row it holds is no longer the stored one.
update_task_write(w) ==
    /\ req[w].pc = "read"
    /\ LET id == req[w].id
           new == Merged(RowSeenByWriter(w), TaskUpdateModel(req[w].body))
           readers == {v \in Workers \ {w} : req[v].pc = "read" /\ req[v].id = id}
       IN  /\ tasks' = UpdateRow(tasks, id, new)
           /\ req' = [v \in Workers |->
                        IF v = w THEN [req[w] EXCEPT !.pc = "done", !.new = new,
                                                     !.first = (readers # {})]
                        ELSE IF v \in readers THEN [req[v] EXCEPT !.stale = TRUE]
                        ELSE req[v]]
           /\ onlyCreates' = FALSE
    /\ UNCHANGED <<now, conns, resp, usedIds>>

\* return Task(...), and the close of get_db's finally clause
update_task_return(w) ==
    /\ req[w].pc = "done"
    /\ resp' = IF TaskValid(req[w].new)
               THEN Response("update_task", 200, "", Sent(req[w].body),
                             <<Task(req[w].id, req[w].new)>>)
               ELSE Response("update_task", 500, "ValidationError", {}, <<>>)
    /\ conns' = conns - 1
    /\ req' = [req EXCEPT ![w] = Idle]
    /\ UNCHANGED <<tasks, now, usedIds, onlyCreates>>

NextConc ==
    \/ \E body \in ConcCreateBodies : create_task(body, TRUE)
    \/ \E w \in Workers, task_id \in Ids, body \in ConcUpdateBodies :
          update_task_read(w, task_id, body)
    \/ \E w \in Workers : update_task_write(w)
    \/ \E w \in Workers : update_task_return(w)

SpecConc == Init /\ [][NextConc]_vars

-----------------------------------------------------------------------------
(* Properties *)

Fields == {"task_name", "description", "status"}

\* C1: in every reachable state the status of every stored task is one of
\* pending, in-progress, testing, done.
C1_StatusEnumerated == \A i \in DOMAIN tasks : tasks[i].status \in Statuses

\* C2: every stored task has a task_name of length 1 to 100, and a create with
\* an empty or 101-character name (POST /tasks or add-item) fails and persists
\* no row.
C2_NameLengthEnforced ==
    [][/\ \A i \in DOMAIN tasks' : ValidName(tasks'[i].task_name)
       /\ \A n \in {"", LongName} :
            /\ \A b \in CreateBodies :
                 (b.task_name = n /\ create_task(b, TRUE))
                    => (resp'.code = 422 /\ tasks' = tasks)
            /\ \A d \in CliDescs :
                 addItem(n, d, TRUE) => (resp'.code # 0 /\ tasks' = tasks)]_vars

\* C3: the id storage assigns to a newly created task differs from the id of
\* every task created earlier, deleted ones included.
C3_IdNeverReused ==
    [][\A i \in DOMAIN tasks' \ DOMAIN tasks : i \notin usedIds]_vars

\* C4: a successful HTTP update of an existing task stores the supplied fields,
\* keeps every omitted field, keeps id and date_added, and leaves every other
\* task unchanged.
C4_UpdateChangesOnlySupplied ==
    [][(resp'.op = "update_task" /\ resp'.code = 200)
          => \A id \in {resp'.body[1].id} \cap DOMAIN tasks :
             \A b \in {x \in UpdateBodies : Sent(x) = resp'.sent} :
                update_task(id, b, TRUE)
                   => /\ DOMAIN tasks' = DOMAIN tasks
                      /\ \A j \in DOMAIN tasks \ {id} : tasks'[j] = tasks[j]
                      /\ tasks'[id].date_added = tasks[id].date_added
                      /\ resp'.body = <<Task(id, tasks'[id])>>
                      /\ \A f \in Fields :
                            tasks'[id][f] =
                               IF f \in Sent(b) THEN b[f] ELSE tasks[id][f]]_vars

\* a status-only update has succeeded on a task that was created in an earlier
\* minute with a description, beside another task
C4_Witness ==
    /\ resp.op = "update_task" /\ resp.code = 200
    /\ resp.sent = {"status"}
    /\ Cardinality(DOMAIN tasks) = 2
    /\ LET t == resp.body[1]
       IN  /\ t.status = "done" /\ t.description = "2%" /\ t.task_name = "Buy milk"
           /\ t.date_added # strftime(now)
           /\ tasks[t.id].status = "done"

\* C5: an update of an id that no stored task has fails with not-found and
\* leaves storage unchanged, through PUT /tasks/{id} and through update-item.
C5_UpdateMissingNotFound ==
    [][\A id \in Ids \ DOMAIN tasks :
         /\ \A b \in UpdateBodies :
              (TaskUpdateValid(b) /\ update_task(id, b, TRUE))
                 => (resp'.code = 404 /\ tasks' = tasks)
         /\ \A s \in CliStatuses :
              updateItem(id, s, TRUE) => (resp'.code # 0 /\ tasks' = tasks)]_vars

\* C6: a delete of an existing id removes exactly that task, so that a list
\* omits it and keeps every other task, and a delete of an id that was created
\* and is no longer stored fails with not-found, through DELETE /tasks/{id}
\* and through remove-item.
C6_DeleteThenNotFound ==
    [][\A id \in Ids :
         /\ (delete_task(id, TRUE) \/ removeItem(id, TRUE)) /\ id \in DOMAIN tasks
               => /\ resp'.code \in {0, 204}
                  /\ \A k \in 1..Len(SelectAll(tasks')) : SelectAll(tasks')[k].id # id
                  /\ \A j \in DOMAIN tasks \ {id} :
                        j \in DOMAIN tasks' /\ tasks'[j] = tasks[j]
         /\ delete_task(id, TRUE) /\ id \in usedIds \ DOMAIN tasks
               => (resp'.code = 404 /\ tasks' = tasks)
         /\ removeItem(id, TRUE) /\ id \in usedIds \ DOMAIN tasks
               => (resp'.code # 0 /\ tasks' = tasks)]_vars

\* C7: after N successful creates and no update or delete, GET /tasks (storage
\* reachable) answers 200 with exactly the N created tasks in ascending id order.
C7_ListAfterCreates ==
    (resp.op = "get_tasks" /\ resp.out # "sqlite3.Error" /\ onlyCreates)
       => /\ resp.code = 200
          /\ Len(resp.body) = Cardinality(usedIds)
          /\ {resp.body[k].id : k \in 1..Len(resp.body)} = usedIds
          /\ \A k \in 1..Len(resp.body) :
                /\ resp.body[k] = Task(resp.body[k].id, tasks[resp.body[k].id])
                /\ k > 1 => resp.body[k - 1].id < resp.body[k].id

\* the fields a body carries are all valid ones
SuppliedValid(b) ==
    /\ b.task_name = Absent \/ ValidName(b.task_name)
    /\ b.description = Absent \/ (b.description # None /\ ValidDesc(b.description))
    /\ b.status = Absent \/ b.status \in Statuses

\* C8: a PUT body that carries any subset of task_name, description, status,
\* each carried value valid, passes validation and the update of an existing
\* (valid) task succeeds.
C8_UpdateFieldsOptional ==
    [][\A id \in DOMAIN tasks, b \in UpdateBodies :
         (TaskValid(tasks[id]) /\ SuppliedValid(b) /\ update_task(id, b, TRUE))
            => resp'.code = 200]_vars

\* C9: when no operation is in progress, no connection is open.
C9_ConnectionsReleased ==
    (\A w \in Workers : req[w].pc = "idle") => conns = 0

\* v and w updated the same task, w read its row before v wrote, and w wrote last
Overlapped(v, w) ==
    /\ v # w
    /\ req[v].pc = "done" /\ req[w].pc = "done"
    /\ req[v].id = req[w].id
    /\ req[v].first /\ req[w].stale
    /\ Sent(req[v].body) \cap Sent(req[w].body) = {}

\* C10 as stated: after two overlapping updates of disjoint fields the stored
\* row carries the new values of both.
C10_BothUpdatesSurvive ==
    \A v, w \in Workers :
        Overlapped(v, w)
           => \A u \in {v, w} : \A f \in Sent(req[u].body) :
                 tasks[req[u].id][f] = req[u].body[f]

\* C10 amended: after two overlapping updates of disjoint fields the last
\* writer wins: the stored row is the last writer's fields over the row it had
\* read, so the first writer's fields are back at the values the last writer read.
C10_LastWriterWins ==
    \A v, w \in Workers :
        Overlapped(v, w)
           => LET stored == tasks[req[w].id]
              IN  /\ \A f \in Sent(req[w].body) : stored[f] = req[w].body[f]
                  /\ \A f \in Fields \ Sent(req[w].body) : stored[f] = req[w].row[f]
                  /\ stored.date_added = req[w].row.date_added

\* two overlapping updates of disjoint fields are done and the first writer's
\* new value is no longer stored
C10_Witness ==
    \E v, w \in Workers :
        /\ Overlapped(v, w)
        /\ Sent(req[w].body) # {}
        /\ \E f \in Sent(req[v].body) : tasks[req[v].id][f] # req[v].body[f]

=============================================================================
